---- MODULE Spec2Model ----
(***************************************************************************)
(* Model of scripts/linters/python_linter.py: the two lint managers        *)
(* (PythonLintChecksManager, ThirdPartyPythonLintChecksManager), their     *)
(* batching loops, output capture and summary messages.                    *)
(*                                                                         *)
(* Text is a sequence of lines; a line is a record (see Line).             *)
(* A message (an element of a summary_messages list) is a text.            *)
(* The external engines (pylint, pycodestyle, isort) are inputs: each      *)
(* invocation returns a status drawn from a small set and writes one line, *)
(* tagged with the ordinal of the invocation, to the current stdout.       *)
(* The elapsed seconds of a SUCCESS line are not modelled.                 *)
(***************************************************************************)
EXTENDS Integers, Sequences, FiniteSets, TLC

\* ---- bounds of the model ----
MaxFiles == 120
MaxSmallFiles == 4
MaxPeriod == 3
MaxShift == 1

\* ---- program constants ----
lint_batch_size == 50
py3_batch_size == 50
_MESSAGE_TYPE_SUCCESS == "SUCCESS"
_MESSAGE_TYPE_FAILED == "FAILED"

\* Values an engine status (pylint msg_status, pycodestyle get_count) takes.
StatusValues == {0, 1}

VARIABLES
  manager,               \* which manager of get_linters() is run
  files_to_lint,         \* self.files_to_lint
  verbose_mode_enabled,  \* self.verbose_mode_enabled
  pc,                    \* position in perform_all_lint_checks
  console,               \* text written to the process's real stdout
  all_messages,          \* value returned by perform_all_lint_checks
  \* _lint_py_files locals
  lint_stdout, lint_index, are_there_errors, lint_summary_messages,
  \* _lint_py_files_for_python3_compatibility locals
  py3_files, py3_stdout, py3_index, any_errors, py3_summary_messages,
  \* _check_import_order locals
  import_index, failed, import_summary_messages,
  \* log of the invocations of the external engines and of what they returned
  pylint_calls, pycodestyle_calls, py3_calls, isort_calls,
  lint_statuses, py3_statuses, isort_results

vars == << manager, files_to_lint, verbose_mode_enabled, pc, console,
           all_messages,
           lint_stdout, lint_index, are_there_errors, lint_summary_messages,
           py3_files, py3_stdout, py3_index, any_errors, py3_summary_messages,
           import_index, failed, import_summary_messages,
           pylint_calls, pycodestyle_calls, py3_calls, isort_calls,
           lint_statuses, py3_statuses, isort_results >>

lintLocals == << lint_stdout, lint_index, are_there_errors,
                 lint_summary_messages >>
py3Locals == << py3_files, py3_stdout, py3_index, any_errors,
                py3_summary_messages >>
importLocals == << import_index, failed, import_summary_messages >>
lintLog == << pylint_calls, pycodestyle_calls, lint_statuses >>
py3Log == << py3_calls, py3_statuses >>
importLog == << isort_calls, isort_results >>
inputs == << manager, files_to_lint, verbose_mode_enabled >>

\* ---- helpers ----
Min(a, b) == IF a < b THEN a ELSE b

\* A line of text: who wrote it, SUCCESS/FAILED or "", the wording, and up to
\* two numbers the wording is formatted with.
Line(src, type, text, num, to) ==
  [src |-> src, type |-> type, text |-> text, num |-> num, to |-> to]

\* ---- file paths ----
\* A path is [dir, name]: a directory unique to the file and the tokens of
\* the rest of the path.
PoolSeq == << << "jobs", ".py" >>,
              << "python_utils", ".py" >>,
              << "python_utils", ".pyi" >>,
              << "core/", "python_utils", "_test", ".py" >> >>

FilePath(i, period, shift) ==
  [dir |-> i, name |-> PoolSeq[((((i - 1) % period) + shift) % Len(PoolSeq)) + 1]]

FileList(n, period, shift) == [i \in 1..n |-> FilePath(i, period, shift)]

\* The lengths of the file lists: the short lists, the lengths next to a
\* multiple of the batch size, and the longest list.
FileCounts ==
  {n \in 0..MaxFiles :
     \/ n <= MaxSmallFiles
     \/ n % lint_batch_size \in {0, 1, lint_batch_size - 1}
     \/ n = MaxFiles}

\* bug: re.match(r'^.*python_utils.*$', file_name)
MatchesAnyPythonUtils(file_name) ==
  \E i \in 1..Len(file_name.name) : file_name.name[i] = "python_utils"

\* re.match(r'^.*python_utils.*\.py$', file_name)
MatchesExclusion(file_name) ==
  \E i \in 1..Len(file_name.name) :
    /\ file_name.name[i] = "python_utils"
    /\ i < Len(file_name.name)
    /\ file_name.name[Len(file_name.name)] = ".py"

\* [f for f in files_to_lint if not re.match(...)]
Py3Filter(files) ==
  SelectSeq(files, LAMBDA file_name : ~MatchesExclusion(file_name))

\* ---- python_utils / linter_utils ----
\* python_utils.string_io(): a fresh, empty in-memory text buffer
string_io == << >>

\* StringIO.getvalue(): everything written to the buffer since it was made
getvalue(buffer) == buffer

\* python_utils.PRINT(...) while sys.stdout is `stream`
PRINT(stream, lines) == stream \o lines

\* with linter_utils.redirect_stdout(new_target): body -- what the body
\* writes goes to new_target; the previous sys.stdout is reinstated on exit.
redirect_stdout(new_target, written) == new_target \o written

\* ---- pieces of the batching loops ----
\* bug: the empty list is not short-circuited
HasNoFilesNever(files) == FALSE

\* `if not self.all_filepaths`
HasNoFiles(files) == files = << >>

\* bug: the loop stops after a failing batch
LoopStopsOnError(start_index, length, errors) ==
  start_index < length /\ ~errors

\* `while current_batch_start_index < len(files)`
LoopContinues(start_index, length, errors) == start_index < length

\* bug: the batch ends one file early
BatchEndOneShort(start_index, batch_size, length) ==
  Min(start_index + batch_size - 1, length)

\* min(current_batch_start_index + _batch_size, len(files))
BatchEnd(start_index, batch_size, length) ==
  Min(start_index + batch_size, length)

\* bug: files[start_index: end_index - 1]
BatchSliceShort(files, start_index, end_index) ==
  SubSeq(files, start_index + 1, Min(end_index, Len(files)) - 1)

\* files[start_index: end_index] (0-based, end exclusive, clipped)
BatchSlice(files, start_index, end_index) ==
  SubSeq(files, start_index + 1, Min(end_index, Len(files)))

\* current_batch_start_index = current_batch_end_index
NextBatchStart(end_index) == end_index

\* `pylinter.msg_status != 0 or pycodestyle_report.get_count() != 0`
LintBatchFailed(msg_status, count) == msg_status # 0 \/ count # 0

\* `pylinter_for_python3.msg_status != 0`
Py3BatchFailed(msg_status) == msg_status # 0

\* bug: the flag is overwritten by each batch
ErrorFlagLastBatch(previous, batch_failed) == batch_failed

\* `are_there_errors = True` / `any_errors = True` inside the `if`
ErrorFlag(previous, batch_failed) == previous \/ batch_failed

\* the summary line of _lint_py_files
LintSummary(errors, num_py_files) ==
  IF errors
  THEN Line("linter", _MESSAGE_TYPE_FAILED, "Python linting failed", 0, 0)
  ELSE Line("linter", _MESSAGE_TYPE_SUCCESS, "%s Python files linted",
            num_py_files, 0)

\* the summary line of _lint_py_files_for_python3_compatibility
Py3Summary(errors, num_py_files) ==
  IF errors
  THEN Line("linter", _MESSAGE_TYPE_FAILED,
            "Python linting for Python 3 compatibility failed", 0, 0)
  ELSE Line("linter", _MESSAGE_TYPE_SUCCESS,
            "%s Python files linted for Python 3 compatibility",
            num_py_files, 0)

NoPy3FilesNotice ==
  "There are no Python files to lint for Python 3 compatibility."

\* what perform_all_lint_checks returns when there is nothing to lint
NoFilesResult == << >>

\* bug: an empty filtered list is reported as a success
VacuousPy3Success ==
  << << Line("linter", _MESSAGE_TYPE_SUCCESS,
              "%s Python files linted for Python 3 compatibility", 0, 0) >> >>

\* what _lint_py_files_for_python3_compatibility returns when every file is
\* excluded
NoPy3FilesResult == << >>

\* ---- pieces of _check_import_order ----
\* bug: stdout = python_utils.string_io()
import_stdout_is_buffer == FALSE

\* `stdout = sys.stdout`: the redirect target of the import-order check is
\* the process's stdout itself, not a buffer
import_stdout_is_sys_stdout == TRUE

\* bug: the loop breaks at the first unsorted file
ImportLoopStopsOnFailure(index, length, has_failed) ==
  index < length /\ ~has_failed

\* `for filepath in files_to_check`
ImportLoopContinues(index, length, has_failed) == index < length

\* `if isort.SortImports(...).incorrectly_sorted: failed = True`
ImportFailed(previous, incorrectly_sorted) == previous \/ incorrectly_sorted

\* the summary line of _check_import_order
ImportSummary(has_failed) ==
  IF has_failed
  THEN Line("linter", _MESSAGE_TYPE_FAILED,
            "Import order checks failed, file imports should be alphabetized, see affect files above.",
            0, 0)
  ELSE Line("linter", _MESSAGE_TYPE_SUCCESS, "Import order checks passed",
            0, 0)

\* what isort writes to stdout for one file in check mode with show_diff
IsortOutput(ordinal, incorrectly_sorted) ==
  IF incorrectly_sorted
  THEN << Line("isort", "", "ERROR: Imports are incorrectly sorted; diff",
               ordinal, 0) >>
  ELSE << >>

\* ---- state after get_linters(files_to_lint, verbose_mode_enabled) ----
Init ==
  /\ manager \in {"custom", "third_party"}
  /\ verbose_mode_enabled \in BOOLEAN
  /\ \E n \in FileCounts, period \in 1..MaxPeriod, shift \in 0..MaxShift :
       /\ manager = "custom" => n <= MaxSmallFiles
       /\ files_to_lint = FileList(n, period, shift)
  /\ pc = "start"
  /\ console = << >>
  /\ all_messages = << >>
  /\ lint_stdout = << >> /\ lint_index = 0 /\ are_there_errors = FALSE
  /\ lint_summary_messages = << >>
  /\ py3_files = << >> /\ py3_stdout = << >> /\ py3_index = 0
  /\ any_errors = FALSE /\ py3_summary_messages = << >>
  /\ import_index = 0 /\ failed = FALSE /\ import_summary_messages = << >>
  /\ pylint_calls = << >> /\ pycodestyle_calls = << >> /\ py3_calls = << >>
  /\ isort_calls = << >>
  /\ lint_statuses = << >> /\ py3_statuses = << >> /\ isort_results = << >>

\* ---- ThirdPartyPythonLintChecksManager ----
\* perform_all_lint_checks up to the first loop test of _lint_py_files
ThirdPartyPerformAllLintChecks ==
  /\ pc = "start" /\ manager = "third_party"
  /\ IF HasNoFiles(files_to_lint)
     THEN /\ console' = PRINT(console,
               << Line("linter", "", "", 0, 0),
                  Line("linter", "", "There are no Python files to lint.",
                       0, 0) >>)
          /\ all_messages' = NoFilesResult
          /\ pc' = "done"
          /\ UNCHANGED lintLocals
     ELSE /\ console' = PRINT(console,
               << Line("linter", "", "Linting %s Python files",
                       Len(files_to_lint), 0) >>)
          /\ all_messages' = << >>
          /\ lint_stdout' = string_io
          /\ lint_index' = 0
          /\ are_there_errors' = FALSE
          /\ lint_summary_messages' = << >>
          /\ pc' = "lint"
  /\ UNCHANGED << inputs, py3Locals, importLocals, lintLog, py3Log,
                  importLog >>

\* one iteration of the while loop of _lint_py_files
LintBatch ==
  /\ pc = "lint"
  /\ LoopContinues(lint_index, Len(files_to_lint), are_there_errors)
  /\ \E msg_status \in StatusValues, count \in StatusValues :
       LET end_index == BatchEnd(lint_index, lint_batch_size,
                                 Len(files_to_lint))
           current == BatchSlice(files_to_lint, lint_index, end_index)
           ordinal == Len(pylint_calls) + 1
           progress ==
             IF verbose_mode_enabled
             THEN << Line("linter", "", "Linting Python files %s to %s...",
                          lint_index + 1, end_index) >>
             ELSE << >>
           captured == redirect_stdout(lint_stdout,
             << Line("pylint", "", "output", ordinal, 0),
                Line("pycodestyle", "", "output", ordinal, 0) >>)
           batch_failed == LintBatchFailed(msg_status, count)
           summary_message == getvalue(captured)
       IN /\ pylint_calls' = Append(pylint_calls,
               [files |-> current, option |-> "--rcfile=.pylintrc"])
          /\ pycodestyle_calls' = Append(pycodestyle_calls,
               [files |-> current, option |-> "config_file=tox.ini"])
          /\ lint_statuses' = Append(lint_statuses,
               [msg_status |-> msg_status, count |-> count])
          /\ lint_stdout' = captured
          /\ console' = PRINT(PRINT(console, progress),
               IF batch_failed THEN summary_message ELSE << >>)
          /\ lint_summary_messages' =
               IF batch_failed
               THEN Append(lint_summary_messages, summary_message)
               ELSE lint_summary_messages
          /\ are_there_errors' = ErrorFlag(are_there_errors, batch_failed)
          /\ lint_index' = NextBatchStart(end_index)
  /\ UNCHANGED << inputs, pc, all_messages, py3Locals, importLocals, py3Log,
                  importLog >>

\* the rest of _lint_py_files after the loop, and all_messages.extend(...)
LintReturn ==
  /\ pc = "lint"
  /\ ~LoopContinues(lint_index, Len(files_to_lint), are_there_errors)
  /\ LET summary_message ==
           << LintSummary(are_there_errors, Len(files_to_lint)) >>
     IN /\ lint_summary_messages' =
             Append(lint_summary_messages, summary_message)
        /\ console' = PRINT(console, summary_message
             \o << Line("linter", "", "Python linting finished.", 0, 0) >>)
        /\ all_messages' = all_messages
             \o Append(lint_summary_messages, summary_message)
  /\ pc' = "py3_start"
  /\ UNCHANGED << inputs, lint_stdout, lint_index, are_there_errors,
                  py3Locals, importLocals, lintLog, py3Log, importLog >>

\* _lint_py_files_for_python3_compatibility up to its first loop test
Py3Start ==
  /\ pc = "py3_start"
  /\ py3_files' = Py3Filter(files_to_lint)
  /\ py3_stdout' = string_io
  /\ any_errors' = FALSE
  /\ py3_index' = 0
  /\ IF py3_files' = << >>
     THEN /\ console' = PRINT(console,
               << Line("linter", "", "", 0, 0),
                  Line("linter", "", NoPy3FilesNotice, 0, 0) >>)
          /\ py3_summary_messages' = NoPy3FilesResult
          /\ all_messages' = all_messages \o NoPy3FilesResult
          /\ pc' = "done"
     ELSE /\ console' = PRINT(console,
               << Line("linter", "",
                       "Linting %s Python files for Python 3 compatibility.",
                       Len(py3_files'), 0) >>)
          /\ py3_summary_messages' = << >>
          /\ all_messages' = all_messages
          /\ pc' = "py3"
  /\ UNCHANGED << inputs, lintLocals, importLocals, lintLog, py3Log,
                  importLog >>

\* one iteration of the while loop of
\* _lint_py_files_for_python3_compatibility
Py3Batch ==
  /\ pc = "py3"
  /\ LoopContinues(py3_index, Len(py3_files), any_errors)
  /\ \E msg_status \in StatusValues :
       LET end_index == BatchEnd(py3_index, py3_batch_size, Len(py3_files))
           current == BatchSlice(py3_files, py3_index, end_index)
           ordinal == Len(py3_calls) + 1
           progress ==
             IF verbose_mode_enabled
             THEN << Line("linter", "",
               "Linting Python files for Python 3 compatibility %s to %s..",
                          py3_index + 1, end_index) >>
             ELSE << >>
           captured == redirect_stdout(py3_stdout,
             << Line("linter", "", "Messages for Python 3 support:", 0, 0),
                Line("pylint", "", "output", ordinal, 0) >>)
           batch_failed == Py3BatchFailed(msg_status)
           summary_message == getvalue(captured)
       IN /\ py3_calls' = Append(py3_calls,
               [files |-> current, option |-> "--py3k"])
          /\ py3_statuses' = Append(py3_statuses, msg_status)
          /\ py3_stdout' = captured
          /\ console' = PRINT(PRINT(console, progress),
               IF batch_failed THEN summary_message ELSE << >>)
          /\ py3_summary_messages' =
               IF batch_failed
               THEN Append(py3_summary_messages, summary_message)
               ELSE py3_summary_messages
          /\ any_errors' = ErrorFlag(any_errors, batch_failed)
          /\ py3_index' = NextBatchStart(end_index)
  /\ UNCHANGED << inputs, pc, all_messages, py3_files, lintLocals,
                  importLocals, lintLog, importLog >>

\* the rest of _lint_py_files_for_python3_compatibility after the loop,
\* all_messages.extend(...) and the return of perform_all_lint_checks
Py3Return ==
  /\ pc = "py3"
  /\ ~LoopContinues(py3_index, Len(py3_files), any_errors)
  /\ LET summary_message == << Py3Summary(any_errors, Len(py3_files)) >>
     IN /\ py3_summary_messages' =
             Append(py3_summary_messages, summary_message)
        /\ console' = PRINT(console, summary_message
             \o << Line("linter", "",
                  "Python linting for Python 3 compatibility finished.",
                        0, 0) >>)
        /\ all_messages' = all_messages
             \o Append(py3_summary_messages, summary_message)
  /\ pc' = "done"
  /\ UNCHANGED << inputs, py3_files, py3_stdout, py3_index, any_errors,
                  lintLocals, importLocals, lintLog, py3Log, importLog >>

\* ---- PythonLintChecksManager ----
\* perform_all_lint_checks up to the first file of _check_import_order
CustomPerformAllLintChecks ==
  /\ pc = "start" /\ manager = "custom"
  /\ IF HasNoFiles(files_to_lint)
     THEN /\ console' = PRINT(console,
               << Line("linter", "", "", 0, 0),
                  Line("linter", "", "There are no Python files to lint.",
                       0, 0) >>)
          /\ all_messages' = NoFilesResult
          /\ pc' = "done"
     ELSE /\ console' = PRINT(console,
               IF verbose_mode_enabled
               THEN << Line("linter", "", "Starting import-order checks",
                            0, 0),
                       Line("linter", "",
                            "----------------------------------------",
                            0, 0) >>
               ELSE << >>)
          /\ all_messages' = << >>
          /\ pc' = "isort"
  /\ import_index' = 0
  /\ failed' = FALSE
  /\ import_summary_messages' = << >>
  /\ UNCHANGED << inputs, lintLocals, py3Locals, lintLog, py3Log,
                  importLog >>

\* one iteration of the for loop of _check_import_order
CheckImportOrderFile ==
  /\ pc = "isort"
  /\ ImportLoopContinues(import_index, Len(files_to_lint), failed)
  /\ \E incorrectly_sorted \in BOOLEAN :
       LET filepath == files_to_lint[import_index + 1]
           ordinal == Len(isort_calls) + 1
           written == IsortOutput(ordinal, incorrectly_sorted)
             \o (IF incorrectly_sorted
                 THEN << Line("linter", "", "", 0, 0) >> ELSE << >>)
       IN /\ isort_calls' = Append(isort_calls,
               [file |-> filepath, check |-> TRUE, show_diff |-> TRUE])
          /\ isort_results' = Append(isort_results, incorrectly_sorted)
          /\ console' = IF import_stdout_is_sys_stdout
                        THEN redirect_stdout(console, written)
                        ELSE console
          /\ failed' = ImportFailed(failed, incorrectly_sorted)
          /\ import_index' = import_index + 1
  /\ UNCHANGED << inputs, pc, all_messages, import_summary_messages,
                  lintLocals, py3Locals, lintLog, py3Log >>

\* the rest of _check_import_order after the loop and the return of
\* perform_all_lint_checks
ImportReturn ==
  /\ pc = "isort"
  /\ ~ImportLoopContinues(import_index, Len(files_to_lint), failed)
  /\ LET summary_message == << ImportSummary(failed) >>
         written == << Line("linter", "", "", 0, 0) >> \o summary_message
     IN /\ console' = IF import_stdout_is_sys_stdout
                      THEN redirect_stdout(console, written)
                      ELSE console
        /\ import_summary_messages' =
             Append(import_summary_messages, summary_message)
        /\ all_messages' = Append(import_summary_messages, summary_message)
  /\ pc' = "done"
  /\ UNCHANGED << inputs, import_index, failed, lintLocals, py3Locals,
                  lintLog, py3Log, importLog >>

Next ==
  \/ CustomPerformAllLintChecks
  \/ CheckImportOrderFile
  \/ ImportReturn
  \/ ThirdPartyPerformAllLintChecks
  \/ LintBatch
  \/ LintReturn
  \/ Py3Start
  \/ Py3Batch
  \/ Py3Return

Spec == Init /\ [][Next]_vars

\* The run is sequential and single-threaded: a step that can be taken is
\* taken.
FairSpec == Spec /\ WF_vars(Next)

\* ---- vocabulary of the properties ----
Tools == {"pylint", "pycodestyle", "isort"}

\* the concatenation of a sequence of sequences
RECURSIVE Flatten(_)
Flatten(ss) == IF ss = << >> THEN << >> ELSE Head(ss) \o Flatten(Tail(ss))

\* the files handed to an engine, in invocation order
CallFiles(calls) == Flatten([i \in 1..Len(calls) |-> calls[i].files])

IsPrefixOf(s, t) == Len(s) <= Len(t) /\ s = SubSeq(t, 1, Len(s))

\* the k-th smallest element of a set of numbers
KthOf(S, k) == CHOOSE b \in S : Cardinality({x \in S : x < b}) = k - 1

FailingLintBatches ==
  {b \in 1..Len(lint_statuses) :
     lint_statuses[b].msg_status # 0 \/ lint_statuses[b].count # 0}

FailingPy3Batches == {b \in 1..Len(py3_statuses) : py3_statuses[b] # 0}

FailingImportFiles == {i \in 1..Len(isort_results) : isort_results[i]}

\* "contains 'python_utils' and ends in '.py'"
Excluded(f) ==
  /\ \E i \in 1..Len(f.name) : f.name[i] = "python_utils"
  /\ f.name[Len(f.name)] = ".py"

NotExcluded(f) == ~Excluded(f)

LintLoopOver == manager = "third_party" /\ pc \in {"py3_start", "py3", "done"}

Py3LoopOver == manager = "third_party" /\ pc = "done"

OnlyBatch(message, b) ==
  \A i \in 1..Len(message) : message[i].src \in Tools => message[i].num = b

\* C1: the captured-output message appended for a failing batch holds only
\* the text the external tools wrote during that batch, in both batched
\* checkers.
CaptureIsolation ==
  /\ \A k \in 1..Cardinality(FailingLintBatches) :
       k <= Len(lint_summary_messages)
         => OnlyBatch(lint_summary_messages[k], KthOf(FailingLintBatches, k))
  /\ \A k \in 1..Cardinality(FailingPy3Batches) :
       k <= Len(py3_summary_messages)
         => OnlyBatch(py3_summary_messages[k], KthOf(FailingPy3Batches, k))

NoEngineInvoked ==
  /\ pylint_calls = << >> /\ pycodestyle_calls = << >>
  /\ py3_calls = << >> /\ isort_calls = << >>

\* C2 as stated: with an empty file list perform_all_lint_checks returns a
\* list of exactly one element and no engine is invoked.
EmptyListSingleSummary ==
  (pc = "done" /\ files_to_lint = << >>)
    => (Len(all_messages) = 1 /\ NoEngineInvoked)

\* C2 as amended: with an empty file list perform_all_lint_checks returns
\* the empty list, the 'no files to lint' notice is only printed, and no
\* engine is invoked.
EmptyListReturnsNothing ==
  (pc = "done" /\ files_to_lint = << >>)
    => /\ all_messages = << >>
       /\ NoEngineInvoked
       /\ \E i \in 1..Len(console) :
            console[i].text = "There are no Python files to lint."

EmptyListWitness ==
  /\ pc = "done" /\ files_to_lint = << >> /\ manager = "third_party"
  /\ console # << >>

PartitionOf(calls, files, loop_over) ==
  /\ \A b \in 1..Len(calls) :
       Len(calls[b].files) >= 1 /\ Len(calls[b].files) <= 50
  /\ IsPrefixOf(CallFiles(calls), files)
  /\ loop_over => CallFiles(calls) = files

\* C3: in both batched checkers the batches handed to the external tools,
\* concatenated in invocation order, are the (filtered) file list in its
\* order; every batch is a non-empty slice of at most 50 files.
BatchesPartitionFileList ==
  /\ PartitionOf(pylint_calls, files_to_lint, LintLoopOver)
  /\ PartitionOf(pycodestyle_calls, files_to_lint, LintLoopOver)
  /\ PartitionOf(py3_calls, py3_files,
                 Py3LoopOver /\ files_to_lint # << >>)

PartitionWitness ==
  /\ pc = "done" /\ Len(files_to_lint) = 120
  /\ Len(pylint_calls) = 3 /\ Len(py3_calls) = 2
  /\ Len(py3_files) = 80

FinalLine(messages) == messages[Len(messages)][1]

\* C4: the final summary line of a batched checker is SUCCESS exactly when
\* every batch reported zero statuses and FAILED exactly when some batch
\* reported a non-zero status.
SummaryFollowsStatuses ==
  /\ (LintLoopOver /\ files_to_lint # << >>)
       => /\ FinalLine(lint_summary_messages).type = "SUCCESS"
               <=> FailingLintBatches = {}
          /\ FinalLine(lint_summary_messages).type = "FAILED"
               <=> FailingLintBatches # {}
  /\ (Py3LoopOver /\ py3_files # << >>)
       => /\ FinalLine(py3_summary_messages).type = "SUCCESS"
               <=> FailingPy3Batches = {}
          /\ FinalLine(py3_summary_messages).type = "FAILED"
               <=> FailingPy3Batches # {}

SummaryWitness ==
  /\ pc = "done" /\ Len(lint_statuses) = 3 /\ Len(py3_statuses) = 3
  /\ FailingLintBatches = {1} /\ FailingPy3Batches = {3}
  /\ FinalLine(lint_summary_messages).type = "FAILED"
  /\ FinalLine(py3_summary_messages).type = "FAILED"

AllFilesPassedOnce ==
  manager = "third_party"
    => /\ CallFiles(pylint_calls) = files_to_lint
       /\ CallFiles(pycodestyle_calls) = files_to_lint
       /\ CallFiles(py3_calls)
            = SelectSeq(files_to_lint, NotExcluded)

\* C5: while files of the (filtered) list remain, the only step a batched
\* checker takes is the next batch invocation, whatever the earlier batches
\* reported; and the run terminates with every file passed exactly once.
NoEarlyAbort ==
  /\ [][ /\ (pc = "lint"
             /\ Len(CallFiles(pylint_calls)) < Len(files_to_lint))
            => (pc' = "lint"
                /\ Len(pylint_calls') = Len(pylint_calls) + 1)
         /\ (pc = "py3" /\ Len(CallFiles(py3_calls)) < Len(py3_files))
            => (pc' = "py3" /\ Len(py3_calls') = Len(py3_calls) + 1)
       ]_vars
  /\ <>(pc = "done" /\ AllFilesPassedOnce)

NoEarlyAbortWitness ==
  /\ pc = "done" /\ Len(lint_statuses) = 3 /\ Len(py3_statuses) = 2
  /\ 1 \in FailingLintBatches /\ 1 \in FailingPy3Batches
  /\ AllFilesPassedOnce

CeilDiv(n, d) == (n + d - 1) \div d

BatchSizes(calls) == [b \in 1..Len(calls) |-> Len(calls[b].files)]

\* C6: the number of batch invocations of a batched checker is
\* ceil(len(filteredFiles) / 50); 120 files give batches of 50, 50 and 20.
InvocationCount ==
  /\ LintLoopOver
       => /\ Len(pylint_calls) = CeilDiv(Len(files_to_lint), 50)
          /\ Len(pycodestyle_calls) = CeilDiv(Len(files_to_lint), 50)
          /\ Len(files_to_lint) = 120
               => BatchSizes(pylint_calls) = << 50, 50, 20 >>
  /\ Py3LoopOver
       => Len(py3_calls)
            = CeilDiv(Len(SelectSeq(files_to_lint, NotExcluded)), 50)

InvocationCountWitness ==
  /\ pc = "done" /\ Len(files_to_lint) = 120
  /\ BatchSizes(pylint_calls) = << 50, 50, 20 >>
  /\ Len(py3_calls) = 3

\* C7: the Python-3 checker passes no excluded file to the engine, passes
\* every other file once in the original order, and its SUCCESS line
\* reports the filtered count.
Py3ExclusionFilter ==
  /\ \A b \in 1..Len(py3_calls) :
       \A i \in 1..Len(py3_calls[b].files) :
         ~Excluded(py3_calls[b].files[i])
  /\ Py3LoopOver
       => CallFiles(py3_calls) = SelectSeq(files_to_lint, NotExcluded)
  /\ (Py3LoopOver /\ py3_calls # << >> /\ FailingPy3Batches = {})
       => FinalLine(py3_summary_messages).num
            = Len(SelectSeq(files_to_lint, NotExcluded))

Py3ExclusionWitness ==
  /\ pc = "done" /\ Len(files_to_lint) = 3
  /\ Cardinality({i \in 1..3 : Excluded(files_to_lint[i])}) = 1
  /\ Len(CallFiles(py3_calls)) = 2
  /\ FinalLine(py3_summary_messages).num = 2

AllExcluded ==
  /\ files_to_lint # << >>
  /\ \A i \in 1..Len(files_to_lint) : Excluded(files_to_lint[i])

\* C8: when the list is non-empty and every file is excluded, the Python-3
\* engine is never invoked and the returned list is exactly the messages of
\* the style/convention checker.
AllExcludedSkipsPy3 ==
  (manager = "third_party" /\ AllExcluded)
    => /\ py3_calls = << >>
       /\ pc = "done"
            => /\ all_messages = lint_summary_messages
               /\ Len(all_messages) >= 1
               /\ \A k \in 1..Len(all_messages) :
                    \A i \in 1..Len(all_messages[k]) :
                      all_messages[k][i].text
                        \notin { Py3Summary(TRUE, 0).text,
                                 Py3Summary(FALSE, 0).text }

AllExcludedWitness ==
  /\ manager = "third_party" /\ AllExcluded /\ pc = "done"
  /\ Len(files_to_lint) > 50 /\ FailingLintBatches # {}

\* C9: the import-order check hands every file to the engine once, alone,
\* in list order and in check-only mode, whatever earlier files reported;
\* it returns one summary, SUCCESS exactly when no file was incorrectly
\* sorted.
ImportOrderCheck ==
  manager = "custom"
    => /\ \A i \in 1..Len(isort_calls) :
            /\ isort_calls[i].file = files_to_lint[i]
            /\ isort_calls[i].check
       /\ Len(isort_calls) <= Len(files_to_lint)
       /\ (pc = "done" /\ files_to_lint # << >>)
            => /\ Len(isort_calls) = Len(files_to_lint)
               /\ Len(all_messages) = 1
               /\ FinalLine(all_messages).type = "SUCCESS"
                    <=> FailingImportFiles = {}
               /\ FinalLine(all_messages).type = "FAILED"
                    <=> FailingImportFiles # {}

ImportOrderWitness ==
  /\ manager = "custom" /\ pc = "done" /\ Len(files_to_lint) = 3
  /\ FailingImportFiles = {1}
  /\ FinalLine(all_messages).type = "FAILED"

DiagnosticsOf(text) == SelectSeq(text, LAMBDA l : l.src = "isort")

\* C10 as stated: when the import-order check fails, the message returned
\* to the caller includes the diagnostic text of the failing files.
ImportMessageHoldsDiagnostics ==
  (manager = "custom" /\ pc = "done" /\ FailingImportFiles # {})
    => \A f \in FailingImportFiles :
         \E k \in 1..Len(all_messages) :
           \E i \in 1..Len(all_messages[k]) :
             /\ all_messages[k][i].src = "isort"
             /\ all_messages[k][i].num = f

\* C10 as amended: when the import-order check fails, the diagnostic text
\* of exactly the failing files is written to the process's standard
\* output in file-list order; the list returned to the caller holds the
\* single FAILED summary line and no diagnostic text.
ImportDiagnosticsOnConsole ==
  (manager = "custom" /\ pc = "done" /\ FailingImportFiles # {})
    => /\ Len(DiagnosticsOf(console)) = Cardinality(FailingImportFiles)
       /\ \A k \in 1..Cardinality(FailingImportFiles) :
            DiagnosticsOf(console)[k].num = KthOf(FailingImportFiles, k)
       /\ Len(all_messages) = 1
       /\ Len(all_messages[1]) = 1
       /\ all_messages[1][1].src = "linter"
       /\ all_messages[1][1].type = "FAILED"

ImportDiagnosticsWitness ==
  /\ manager = "custom" /\ pc = "done" /\ Len(files_to_lint) = 3
  /\ FailingImportFiles = {2}
  /\ Len(DiagnosticsOf(console)) = 1

====
